---- MODULE Spec2Model ----
(***************************************************************************)
(* VolleyVision (sketch.js): the session state machine of the p5.js video  *)
(* annotator -- video priming, the four-click calibration, rep recording,  *)
(* the keyboard and dashboard handlers, and the aggregation and summary    *)
(* run by the video's onended handler.                                     *)
(*                                                                         *)
(* Numbers.  JavaScript numbers are modelled as records: a finite value is *)
(* an exact reduced fraction [k |-> "fin", n, d] (d > 0), and the IEEE     *)
(* specials are NaN, PInf and NInf, produced by the same operations that   *)
(* produce them in JavaScript (x/0, 0/0, Infinity*0, Infinity-Infinity).   *)
(* Rounding error of binary doubles is not modelled, and 2.43 is taken as  *)
(* the fraction 243/100.  Null and Undef are JavaScript null / undefined.  *)
(*                                                                         *)
(* Not modelled: drawing, the trail colours (paletteIdx, rep.color), the   *)
(* `ready` flag, the snapshot and show/hide-stats buttons, the CSS display *)
(* of the stats container and the time stamp t stored with each recorded   *)
(* point; none of them is read by the handlers modelled here.  play() is   *)
(* taken to succeed, and toFixed(2) formatting of the table is left out.   *)
(***************************************************************************)
EXTENDS Integers, Sequences, FiniteSets, TLC

----------------------------------------------------------------------------
(* Bounds of the model *)

\* most points recorded in one rep
MaxPts == 2
\* most closed reps in trails
MaxReps == 2
\* video length in frames (one time unit = one 1/30 s frame step)
Duration == 1
\* most priming timeouts pending at once
MaxTimers == 2

\* most points held by the session, closed reps and current rep together
MaxTotalPts == 4

\* canvas pixels (mouseX, mouseY) clicked on the net corners during calibration
CalibPixels == { [x |-> 0, y |-> 4], [x |-> 2, y |-> 0] }
\* canvas pixels (mouseX, mouseY) clicked on the ball while recording
BallPixels == { [x |-> 0, y |-> 3], [x |-> 2, y |-> 1] }

----------------------------------------------------------------------------
(* JavaScript values *)

Null  == [k |-> "null"]
Undef == [k |-> "undef"]
NaN   == [k |-> "nan"]
PInf  == [k |-> "pinf"]
NInf  == [k |-> "ninf"]

IAbs(i) == IF i < 0 THEN -i ELSE i

RECURSIVE GCD(_, _)
GCD(a, b) == IF b = 0 THEN a ELSE GCD(b, a % b)

\* the finite number n/d (d # 0), reduced, with positive denominator
Fin(n, d) ==
  LET s == IF d < 0 THEN -1 ELSE 1
      g == GCD(IAbs(n), IAbs(d))
  IN  [k |-> "fin", n |-> (s * n) \div g, d |-> (s * d) \div g]

Num(i) == Fin(i, 1)

IsNum(v) == v.k \in {"fin", "nan", "pinf", "ninf"}

\* -1, 0, 1 for a non-NaN number
Sign(a) ==
  CASE a.k = "pinf" -> 1
    [] a.k = "ninf" -> -1
    [] a.k = "fin"  -> IF a.n > 0 THEN 1 ELSE IF a.n < 0 THEN -1 ELSE 0

NumNeg(a) ==
  CASE a.k = "nan"  -> NaN
    [] a.k = "pinf" -> NInf
    [] a.k = "ninf" -> PInf
    [] a.k = "fin"  -> Fin(-a.n, a.d)

\* a + b
NumAdd(a, b) ==
  IF a.k = "nan" \/ b.k = "nan" THEN NaN
  ELSE IF a.k = "fin" /\ b.k = "fin" THEN Fin(a.n * b.d + b.n * a.d, a.d * b.d)
  ELSE IF a.k = "fin" THEN b
  ELSE IF b.k = "fin" THEN a
  ELSE IF a.k = b.k THEN a
  ELSE NaN

\* a - b
NumSub(a, b) == NumAdd(a, NumNeg(b))

\* a * b
NumMul(a, b) ==
  IF a.k = "nan" \/ b.k = "nan" THEN NaN
  ELSE IF a.k = "fin" /\ b.k = "fin" THEN Fin(a.n * b.n, a.d * b.d)
  ELSE IF Sign(a) * Sign(b) = 0 THEN NaN
  ELSE IF Sign(a) * Sign(b) > 0 THEN PInf
  ELSE NInf

\* a / b; every zero divisor met by the program is +0 (a difference x - x,
\* or an absolute value), so x/0 takes the sign of x
NumDiv(a, b) ==
  IF a.k = "nan" \/ b.k = "nan" THEN NaN
  ELSE IF a.k = "fin" /\ b.k = "fin" THEN
         IF b.n # 0 THEN Fin(a.n * b.d, a.d * b.n)
         ELSE IF a.n = 0 THEN NaN
         ELSE IF a.n > 0 THEN PInf
         ELSE NInf
  ELSE IF a.k # "fin" /\ b.k # "fin" THEN NaN
  ELSE IF a.k = "fin" THEN Num(0)
  ELSE IF Sign(a) * (IF Sign(b) < 0 THEN -1 ELSE 1) > 0 THEN PInf
  ELSE NInf

\* a > b; false when either side is NaN
NumGT(a, b) ==
  IF a.k = "nan" \/ b.k = "nan" THEN FALSE
  ELSE IF a.k = "fin" /\ b.k = "fin" THEN a.n * b.d > b.n * a.d
  ELSE IF a.k = b.k THEN FALSE
  ELSE a.k = "pinf" \/ b.k = "ninf"

\* isFinite(a)
isFinite(a) == a.k = "fin"

\* !v for a number or null: null, undefined, NaN and 0 are falsy
Falsy(v) == v.k \in {"null", "undef", "nan"} \/ (v.k = "fin" /\ v.n = 0)

\* Math.round: the nearest integer, halves rounded towards +Infinity
MathRound(a) ==
  IF a.k = "fin" THEN Num((2 * a.n + a.d) \div (2 * a.d)) ELSE a

----------------------------------------------------------------------------
(* Global constants *)

NET_HEIGHT_M == Fin(243, 100)

----------------------------------------------------------------------------
(* Session state *)

VARIABLES
  warmed,          \* the video was played and paused once to decode a frame
  timers,          \* priming timeouts scheduled by primeVideo and not yet fired
  started,         \* the user started playback after calibration
  vidPaused,       \* vid.elt.paused
  vidTime,         \* vid.time(), in frames
  trails,          \* all completed reps
  current,         \* the rep currently being drawn
  showAllAtEnd,    \* the end screen is shown
  showTrails,      \* dashboard toggle for the trails on the end screen
  calibStep,       \* 0..4 (4 means calibration finished)
  calibPts,        \* the clicked net corners LB, LT, RB, RT
  pixelsPerMeter,  \* conversion factor (px / m)
  topLine,         \* [m, b] of the top tape, y = m*x + b
  stats            \* the summary rendered into statsDiv

vars == <<warmed, timers, started, vidPaused, vidTime, trails, current,
          showAllAtEnd, showTrails, calibStep, calibPts, pixelsPerMeter,
          topLine, stats>>

videoVars == <<vidPaused, vidTime>>
repVars   == <<trails, current>>
calibVars == <<calibStep, calibPts, pixelsPerMeter, topLine>>

\* { points: [], color } -- the metric fields of a fresh rep are undefined
EmptyRep ==
  [points |-> <<>>, peakM |-> Undef, aboveNetCM |-> Undef,
   widthM |-> Undef, direction |-> Undef]

NoCalibPts == [LB |-> Null, LT |-> Null, RB |-> Null, RT |-> Null]

\* statsDiv.html('')
NoStats == [k |-> "none"]

Init ==
  /\ warmed = FALSE
  /\ timers = 0
  /\ started = FALSE
  /\ vidPaused = TRUE
  /\ vidTime = 0
  /\ trails = <<>>
  /\ current = EmptyRep
  /\ showAllAtEnd = FALSE
  /\ showTrails = TRUE
  /\ calibStep = 0
  /\ calibPts = NoCalibPts
  /\ pixelsPerMeter = Null
  /\ topLine = Null
  /\ stats = NoStats

----------------------------------------------------------------------------
(* Calibration math *)

\* the model built from the four clicked points: pixelsPerMeter and topLine
finalizeCalibration(pts) ==
  LET hLeft  == IAbs(pts.LT.y - pts.LB.y)
      hRight == IAbs(pts.RT.y - pts.RB.y)
      hAvgPx == Fin(hLeft + hRight, 2)
      m == NumDiv(Num(pts.RT.y - pts.LT.y), Num(pts.RT.x - pts.LT.x))
      b == NumSub(Num(pts.LT.y), NumMul(m, Num(pts.LT.x)))
  IN  [pixelsPerMeter |-> NumDiv(hAvgPx, NET_HEIGHT_M),
       topLine |-> [m |-> m, b |-> b]]

\* vertical offset of (x, y) from the net in metres, null without a model
metersAboveNetAtPoint(ppm, tl, x, y) ==
  IF Falsy(ppm) \/ tl = Null THEN Null
  ELSE LET yTop == NumAdd(NumMul(tl.m, Num(x)), tl.b)
           dyPx == NumSub(yTop, Num(y))
       IN  NumDiv(dyPx, ppm)

\* horizontal distance p1 -> p2 in metres, null without a scale
metersHorizDistance(ppm, p1, p2) ==
  IF Falsy(ppm) THEN Null
  ELSE NumDiv(Num(IAbs(p2.x - p1.x)), ppm)

----------------------------------------------------------------------------
(* Metrics per rep *)

\* the loop `for (const p of rep.points)` from point i on, peak so far
RECURSIVE PeakLoop(_, _, _, _, _)
PeakLoop(ppm, tl, pts, i, peakAboveM) ==
  IF i > Len(pts) THEN peakAboveM
  ELSE LET a == metersAboveNetAtPoint(ppm, tl, pts[i].x, pts[i].y)
       IN  PeakLoop(ppm, tl, pts, i + 1,
                    IF a # Null /\ NumGT(a, peakAboveM) THEN a ELSE peakAboveM)

\* a rep with fewer than 2 points: all four derived fields are null
NullMetrics(rep) ==
  [rep EXCEPT !.peakM = Null, !.aboveNetCM = Null,
              !.widthM = Null, !.direction = Null]

\* peak height, centimetres above the net, width and direction of a rep
FullMetrics(ppm, tl, rep) ==
  LET peakAboveM == PeakLoop(ppm, tl, rep.points, 1, NInf)
      start == rep.points[1]
      end   == rep.points[Len(rep.points)]
      wM    == metersHorizDistance(ppm, start, end)
  IN  [rep EXCEPT
         !.peakM = IF ~isFinite(peakAboveM) THEN Null
                   ELSE NumAdd(NET_HEIGHT_M, peakAboveM),
         !.aboveNetCM = IF ~isFinite(peakAboveM) THEN Null
                        ELSE MathRound(NumMul(peakAboveM, Num(100))),
         !.widthM = IF wM # Null THEN wM ELSE Null,
         !.direction = IF end.x > start.x THEN [k |-> "right"]
                       ELSE IF end.x < start.x THEN [k |-> "left"]
                       ELSE [k |-> "dot"]]

\* RepMetrics with the test `rep.points.length < 1`
RepMetricsOnePoint(ppm, tl, rep) ==
  IF Len(rep.points) < 1 THEN NullMetrics(rep) ELSE FullMetrics(ppm, tl, rep)

\* RepMetrics with `rep.widthM += wM` on a rep that already has a width
RepMetricsCumulative(ppm, tl, rep) ==
  IF Len(rep.points) < 2 THEN NullMetrics(rep)
  ELSE LET r == FullMetrics(ppm, tl, rep)
       IN  IF rep.widthM.k = "fin" /\ r.widthM.k = "fin"
           THEN [r EXCEPT !.widthM = NumAdd(rep.widthM, @)]
           ELSE r

\* one iteration of the loop of computeAllRepMetrics
RepMetrics(ppm, tl, rep) ==
  IF Len(rep.points) < 2 THEN NullMetrics(rep) ELSE FullMetrics(ppm, tl, rep)

\* computeAllRepMetrics that drops the reps too short to measure
computeAllRepMetricsFilter(ppm, tl, trs) ==
  LET kept == SelectSeq(trs, LAMBDA r : Len(r.points) >= 2)
  IN  [i \in 1..Len(kept) |-> RepMetrics(ppm, tl, kept[i])]

computeAllRepMetrics(ppm, tl, trs) ==
  [i \in 1..Len(trs) |-> RepMetrics(ppm, tl, trs[i])]

----------------------------------------------------------------------------
(* Stats table *)

\* v != null
NotNull(v) == v.k \notin {"null", "undef"}

\* the body of the loop of renderStatsTable for rep r at index i (from 0);
\* better is the outcome of the test r.peakM > bestVal
StatsStep(acc, r, i, better) ==
  [bestIdx  |-> IF better THEN i ELSE acc.bestIdx,
   bestVal  |-> IF better THEN r.peakM ELSE acc.bestVal,
   sumPeak  |-> IF NotNull(r.peakM)
                THEN NumAdd(acc.sumPeak, r.peakM) ELSE acc.sumPeak,
   nPeak    |-> IF NotNull(r.peakM) THEN acc.nPeak + 1 ELSE acc.nPeak,
   sumWidth |-> IF NotNull(r.widthM)
                THEN NumAdd(acc.sumWidth, r.widthM) ELSE acc.sumWidth,
   nWidth   |-> IF NotNull(r.widthM) THEN acc.nWidth + 1 ELSE acc.nWidth]

\* StatsLoop with the test `r.peakM >= bestVal`
RECURSIVE StatsLoopGE(_, _, _)
StatsLoopGE(trs, i, acc) ==
  IF i > Len(trs) THEN acc
  ELSE LET r == trs[i]
           better == NotNull(r.peakM) /\ ~NumGT(acc.bestVal, r.peakM)
       IN  StatsLoopGE(trs, i + 1, StatsStep(acc, r, i - 1, better))

\* the loop over trails of renderStatsTable, from the i-th rep on
RECURSIVE StatsLoop(_, _, _)
StatsLoop(trs, i, acc) ==
  IF i > Len(trs) THEN acc
  ELSE LET r == trs[i]
           better == NotNull(r.peakM) /\ NumGT(r.peakM, acc.bestVal)
       IN  StatsLoop(trs, i + 1, StatsStep(acc, r, i - 1, better))

\* the summary lines of the table: best peak with its rep, the two averages
renderStatsTable(trs) ==
  LET acc == StatsLoop(trs, 1,
               [bestIdx |-> -1, bestVal |-> NInf, sumPeak |-> Num(0),
                nPeak |-> 0, sumWidth |-> Num(0), nWidth |-> 0])
  IN  [bestIdx  |-> acc.bestIdx,
       bestVal  |-> acc.bestVal,
       avgPeak  |-> IF acc.nPeak # 0
                    THEN NumDiv(acc.sumPeak, Num(acc.nPeak)) ELSE Null,
       avgWidth |-> IF acc.nWidth # 0
                    THEN NumDiv(acc.sumWidth, Num(acc.nWidth)) ELSE Null]

\* number of points held by the reps trs
RECURSIVE TotalPts(_)
TotalPts(trs) ==
  IF trs = <<>> THEN 0 ELSE Len(Head(trs).points) + TotalPts(Tail(trs))

----------------------------------------------------------------------------
(* Video priming and playback *)

\* primeVideo() called while not warmed: play, and schedule the timeout
primeVideo ==
  /\ ~warmed
  /\ timers < MaxTimers
  /\ vidPaused' = FALSE
  /\ timers' = timers + 1
  /\ UNCHANGED <<warmed, started, vidTime, repVars, showAllAtEnd, showTrails,
                 calibVars, stats>>

\* draw(): the only state it changes is through primeVideo during calibration
Draw ==
  /\ calibStep < 4
  /\ primeVideo

\* PrimeTimeout without `warmed = true`
PrimeTimeoutPauseOnly ==
  /\ timers > 0
  /\ timers' = timers - 1
  /\ vidPaused' = TRUE
  /\ UNCHANGED <<warmed, started, vidTime, repVars, showAllAtEnd, showTrails,
                 calibVars, stats>>

\* the timeout scheduled by primeVideo fires: pause, warmed = true
PrimeTimeout ==
  /\ timers > 0
  /\ timers' = timers - 1
  /\ vidPaused' = TRUE
  /\ warmed' = TRUE
  /\ UNCHANGED <<started, vidTime, repVars, showAllAtEnd, showTrails,
                 calibVars, stats>>

\* the playing video advances by one frame
Tick ==
  /\ ~vidPaused
  /\ vidTime < Duration
  /\ vidTime' = vidTime + 1
  /\ UNCHANGED <<warmed, timers, started, vidPaused, repVars, showAllAtEnd,
                 showTrails, calibVars, stats>>

\* vid.elt.onended: playback reached the end of the video
VideoEnded ==
  /\ ~vidPaused
  /\ vidTime = Duration
  /\ vidPaused' = TRUE
  /\ showAllAtEnd' = TRUE
  /\ showTrails' = TRUE
  /\ trails' = computeAllRepMetrics(pixelsPerMeter, topLine, trails)
  /\ stats' = renderStatsTable(trails')
  /\ UNCHANGED <<warmed, timers, started, vidTime, current, calibVars>>

----------------------------------------------------------------------------
(* Mouse interaction: mousePressed() at pixel pt *)

\* not primed yet: the click only primes the video
ClickPrime ==
  /\ primeVideo

\* ClickCalib without the early return of mousePressed on `!warmed`
ClickCalibUnprimed(pt) ==
  /\ calibStep < 4
  /\ LET pts == CASE calibStep = 0 -> [calibPts EXCEPT !.LB = pt]
                  [] calibStep = 1 -> [calibPts EXCEPT !.LT = pt]
                  [] calibStep = 2 -> [calibPts EXCEPT !.RB = pt]
                  [] calibStep = 3 -> [calibPts EXCEPT !.RT = pt]
     IN  /\ calibPts' = pts
         /\ calibStep' = calibStep + 1
         /\ IF calibStep' = 4
            THEN /\ pixelsPerMeter' = finalizeCalibration(pts).pixelsPerMeter
                 /\ topLine' = finalizeCalibration(pts).topLine
            ELSE UNCHANGED <<pixelsPerMeter, topLine>>
  /\ UNCHANGED <<warmed, timers, started, videoVars, repVars, showAllAtEnd,
                 showTrails, stats>>

\* calibration click number calibStep + 1
ClickCalib(pt) ==
  /\ warmed
  /\ calibStep < 4
  /\ LET pts == CASE calibStep = 0 -> [calibPts EXCEPT !.LB = pt]
                  [] calibStep = 1 -> [calibPts EXCEPT !.LT = pt]
                  [] calibStep = 2 -> [calibPts EXCEPT !.RB = pt]
                  [] calibStep = 3 -> [calibPts EXCEPT !.RT = pt]
     IN  /\ calibPts' = pts
         /\ calibStep' = calibStep + 1
         /\ IF calibStep' = 4
            THEN /\ pixelsPerMeter' = finalizeCalibration(pts).pixelsPerMeter
                 /\ topLine' = finalizeCalibration(pts).topLine
            ELSE UNCHANGED <<pixelsPerMeter, topLine>>
  /\ UNCHANGED <<warmed, timers, started, videoVars, repVars, showAllAtEnd,
                 showTrails, stats>>

\* ClickStart without the `return` after `started = true`: the click that
\* starts playback is recorded too
ClickStartRecords ==
  /\ warmed
  /\ calibStep >= 4
  /\ ~started
  /\ vidPaused' = FALSE
  /\ started' = TRUE
  /\ IF ~showAllAtEnd /\ Len(current.points) < MaxPts
        /\ TotalPts(trails) + Len(current.points) < MaxTotalPts
     THEN \E pt \in BallPixels :
            current' = [current EXCEPT
                          !.points = Append(@, [x |-> pt.x, y |-> pt.y])]
     ELSE UNCHANGED current
  /\ UNCHANGED <<warmed, timers, vidTime, trails, showAllAtEnd, showTrails,
                 calibVars, stats>>

\* first click after calibration starts playback
ClickStart ==
  /\ warmed
  /\ calibStep >= 4
  /\ ~started
  /\ vidPaused' = FALSE
  /\ started' = TRUE
  /\ UNCHANGED <<warmed, timers, vidTime, repVars, showAllAtEnd, showTrails,
                 calibVars, stats>>

\* ClickRecord when N keeps the closed rep and the current rep one object:
\* the point lands in the last closed rep too
ClickRecordAliased(pt) ==
  /\ warmed
  /\ calibStep >= 4
  /\ started
  /\ ~showAllAtEnd
  /\ Len(current.points) < MaxPts
  /\ TotalPts(trails) + Len(current.points) < MaxTotalPts
  /\ current' = [current EXCEPT !.points = Append(@, [x |-> pt.x, y |-> pt.y])]
  /\ trails' = IF trails = <<>> THEN trails
               ELSE [trails EXCEPT ![Len(trails)].points =
                                      Append(@, [x |-> pt.x, y |-> pt.y])]
  /\ UNCHANGED <<warmed, timers, started, videoVars, showAllAtEnd,
                 showTrails, calibVars, stats>>

\* a point of the current rep
ClickRecord(pt) ==
  /\ warmed
  /\ calibStep >= 4
  /\ started
  /\ ~showAllAtEnd
  /\ Len(current.points) < MaxPts
  /\ TotalPts(trails) + Len(current.points) < MaxTotalPts
  /\ current' = [current EXCEPT !.points = Append(@, [x |-> pt.x, y |-> pt.y])]
  /\ UNCHANGED <<warmed, timers, started, videoVars, trails, showAllAtEnd,
                 showTrails, calibVars, stats>>

\* a click on the end screen is ignored
ClickIgnored ==
  /\ warmed
  /\ calibStep >= 4
  /\ started
  /\ showAllAtEnd
  /\ UNCHANGED vars

----------------------------------------------------------------------------
(* Keyboard interaction: keyPressed(), disabled during calibration *)

\* any key during calibration: the handler returns at once
KeyIgnored ==
  /\ calibStep < 4
  /\ UNCHANGED vars

\* Space: play/pause toggle
KeySpace ==
  /\ calibStep >= 4
  /\ vidPaused' = ~vidPaused
  /\ UNCHANGED <<warmed, timers, started, vidTime, repVars, showAllAtEnd,
                 showTrails, calibVars, stats>>

\* KeyN without the test `current.points.length`
KeyNPushesEmpty ==
  /\ calibStep >= 4
  /\ Len(trails) < MaxReps
  /\ trails' = Append(trails, current)
  /\ current' = EmptyRep
  /\ UNCHANGED <<warmed, timers, started, videoVars, showAllAtEnd, showTrails,
                 calibVars, stats>>

\* N: end the current rep (save to trails and start a fresh one)
KeyN ==
  /\ calibStep >= 4
  /\ IF Len(current.points) # 0
     THEN /\ Len(trails) < MaxReps
          /\ trails' = Append(trails, current)
     ELSE UNCHANGED trails
  /\ current' = EmptyRep
  /\ UNCHANGED <<warmed, timers, started, videoVars, showAllAtEnd, showTrails,
                 calibVars, stats>>

\* KeyZ with `current.points.shift()`
KeyZShift ==
  /\ calibStep >= 4
  /\ IF Len(current.points) # 0
     THEN current' = [current EXCEPT !.points = Tail(@)]
     ELSE UNCHANGED current
  /\ UNCHANGED <<warmed, timers, started, videoVars, trails, showAllAtEnd,
                 showTrails, calibVars, stats>>

\* Z: undo last clicked point
KeyZ ==
  /\ calibStep >= 4
  /\ IF Len(current.points) # 0
     THEN current' = [current EXCEPT !.points = SubSeq(@, 1, Len(@) - 1)]
     ELSE UNCHANGED current
  /\ UNCHANGED <<warmed, timers, started, videoVars, trails, showAllAtEnd,
                 showTrails, calibVars, stats>>

\* , : single-frame step backward
KeyComma ==
  /\ calibStep >= 4
  /\ IF ~showAllAtEnd
     THEN /\ vidPaused' = TRUE
          /\ vidTime' = IF vidTime - 1 > 0 THEN vidTime - 1 ELSE 0
     ELSE UNCHANGED videoVars
  /\ UNCHANGED <<warmed, timers, started, repVars, showAllAtEnd, showTrails,
                 calibVars, stats>>

\* . : single-frame step forward
KeyPeriod ==
  /\ calibStep >= 4
  /\ IF ~showAllAtEnd
     THEN /\ vidPaused' = TRUE
          /\ vidTime' = IF vidTime + 1 < Duration THEN vidTime + 1 ELSE Duration
     ELSE UNCHANGED videoVars
  /\ UNCHANGED <<warmed, timers, started, repVars, showAllAtEnd, showTrails,
                 calibVars, stats>>

\* Enter: replay video and hide trails
KeyEnter ==
  /\ calibStep >= 4
  /\ showAllAtEnd' = FALSE
  /\ showTrails' = FALSE
  /\ current' = EmptyRep
  /\ vidTime' = 0
  /\ vidPaused' = FALSE
  /\ UNCHANGED <<warmed, timers, started, trails, calibVars, stats>>

\* restartVideoHidden that also drops the calibration model
restartVideoHiddenUncalibrated ==
  /\ showAllAtEnd' = FALSE
  /\ showTrails' = FALSE
  /\ current' = EmptyRep
  /\ vidTime' = 0
  /\ vidPaused' = FALSE
  /\ started' = TRUE
  /\ pixelsPerMeter' = Null
  /\ topLine' = Null
  /\ UNCHANGED <<warmed, timers, trails, calibStep, calibPts, stats>>

\* restartVideoHidden that closes the current rep instead of discarding it
restartVideoHiddenSavesRep ==
  /\ showAllAtEnd' = FALSE
  /\ showTrails' = FALSE
  /\ trails' = IF Len(current.points) # 0 /\ Len(trails) < MaxReps
               THEN Append(trails, current) ELSE trails
  /\ current' = EmptyRep
  /\ vidTime' = 0
  /\ vidPaused' = FALSE
  /\ started' = TRUE
  /\ UNCHANGED <<warmed, timers, calibVars, stats>>

\* restart helper used by the Restart button and the S key
restartVideoHidden ==
  /\ showAllAtEnd' = FALSE
  /\ showTrails' = FALSE
  /\ current' = EmptyRep
  /\ vidTime' = 0
  /\ vidPaused' = FALSE
  /\ started' = TRUE
  /\ UNCHANGED <<warmed, timers, trails, calibVars, stats>>

\* S: restart at any time
KeyS ==
  /\ calibStep >= 4
  /\ restartVideoHidden

\* KeyR without the early return of keyPressed on `calibStep < 4`
KeyRDuringCalibration ==
  /\ trails' = <<>>
  /\ current' = EmptyRep
  /\ showAllAtEnd' = FALSE
  /\ started' = FALSE
  /\ calibStep' = 0
  /\ calibPts' = NoCalibPts
  /\ pixelsPerMeter' = Null
  /\ topLine' = Null
  /\ warmed' = FALSE
  /\ stats' = NoStats
  /\ vidTime' = 0
  /\ vidPaused' = TRUE
  /\ UNCHANGED <<timers, showTrails>>

\* KeyR without `trails = []`
KeyRKeepsTrails ==
  /\ calibStep >= 4
  /\ current' = EmptyRep
  /\ showAllAtEnd' = FALSE
  /\ started' = FALSE
  /\ calibStep' = 0
  /\ calibPts' = NoCalibPts
  /\ pixelsPerMeter' = Null
  /\ topLine' = Null
  /\ warmed' = FALSE
  /\ stats' = NoStats
  /\ vidTime' = 0
  /\ vidPaused' = TRUE
  /\ UNCHANGED <<timers, showTrails, trails>>

\* KeyR without `calibPts = { LB: null, ... }`
KeyRKeepsCalibPts ==
  /\ calibStep >= 4
  /\ trails' = <<>>
  /\ current' = EmptyRep
  /\ showAllAtEnd' = FALSE
  /\ started' = FALSE
  /\ calibStep' = 0
  /\ pixelsPerMeter' = Null
  /\ topLine' = Null
  /\ warmed' = FALSE
  /\ stats' = NoStats
  /\ vidTime' = 0
  /\ vidPaused' = TRUE
  /\ UNCHANGED <<timers, showTrails, calibPts>>

\* R: full reset (clears reps and calibration)
KeyR ==
  /\ calibStep >= 4
  /\ trails' = <<>>
  /\ current' = EmptyRep
  /\ showAllAtEnd' = FALSE
  /\ started' = FALSE
  /\ calibStep' = 0
  /\ calibPts' = NoCalibPts
  /\ pixelsPerMeter' = Null
  /\ topLine' = Null
  /\ warmed' = FALSE
  /\ stats' = NoStats
  /\ vidTime' = 0
  /\ vidPaused' = TRUE
  /\ UNCHANGED <<timers, showTrails>>

----------------------------------------------------------------------------
(* Dashboard buttons, shown by updateDashboard on the end screen only *)

dashboardShown == showAllAtEnd /\ calibStep >= 4

\* Replay: rewind to 0, hide trails, clear current rep, play again
BtnReplay ==
  /\ dashboardShown
  /\ showAllAtEnd' = FALSE
  /\ showTrails' = FALSE
  /\ current' = EmptyRep
  /\ vidTime' = 0
  /\ vidPaused' = FALSE
  /\ UNCHANGED <<warmed, timers, started, trails, calibVars, stats>>

\* Toggle whether trails are drawn on the end screen
BtnToggle ==
  /\ dashboardShown
  /\ showTrails' = ~showTrails
  /\ UNCHANGED <<warmed, timers, started, videoVars, repVars, showAllAtEnd,
                 calibVars, stats>>

\* Restart is like immediate replay
BtnRestart ==
  /\ dashboardShown
  /\ restartVideoHidden

----------------------------------------------------------------------------
(* The session *)

Next ==
  \/ Draw
  \/ PrimeTimeout
  \/ Tick
  \/ VideoEnded
  \/ ClickPrime
  \/ \E pt \in CalibPixels : ClickCalib(pt)
  \/ ClickStart
  \/ \E pt \in BallPixels : ClickRecord(pt)
  \/ ClickIgnored
  \/ KeyIgnored
  \/ KeySpace
  \/ KeyN
  \/ KeyZ
  \/ KeyComma
  \/ KeyPeriod
  \/ KeyEnter
  \/ KeyS
  \/ KeyR
  \/ BtnReplay
  \/ BtnToggle
  \/ BtnRestart

Spec == Init /\ [][Next]_vars

\* the draw loop keeps running and a pending timeout fires
FairSpec == Spec /\ WF_vars(Draw) /\ WF_vars(PrimeTimeout)

----------------------------------------------------------------------------
(* Properties *)

\* the reps of trs with at least n points
Measured(trs, n) == { i \in 1..Len(trs) : Len(trs[i].points) >= n }

\* C1: finalizing the calibration with LT.x = RT.x never leaves a model in
\* place whose top-line slope or intercept is infinite or undefined
C1_TopLineFinite ==
  topLine # Null => isFinite(topLine.m) /\ isFinite(topLine.b)

\* C2: whenever the calibration is finished, pixelsPerMeter is a number
\* strictly greater than 0
C2_PixelsPerMeterPositive ==
  calibStep = 4 => pixelsPerMeter.k = "fin" /\ pixelsPerMeter.n > 0

\* C3: after the aggregation at video end every rep with at least 2 points
\* has a non-null width, and its direction follows the sign of
\* last.x - first.x of its first and last recorded points
C3_WidthAndDirection ==
  [][VideoEnded =>
       \A i \in Measured(trails', 2) :
         LET rep   == trails'[i]
             first == rep.points[1]
             last  == rep.points[Len(rep.points)]
         IN  /\ isFinite(rep.widthM)
             /\ rep.direction =
                  IF last.x > first.x THEN [k |-> "right"]
                  ELSE IF last.x < first.x THEN [k |-> "left"]
                  ELSE [k |-> "dot"]]_vars

\* C4: after the aggregation at video end every rep with 0 or 1 points has
\* all four derived fields null
C4_ShortRepAllNull ==
  [][VideoEnded =>
       \A i \in 1..Len(trails') :
         Len(trails'[i].points) < 2 =>
           /\ trails'[i].peakM = Null
           /\ trails'[i].aboveNetCM = Null
           /\ trails'[i].widthM = Null
           /\ trails'[i].direction = Null]_vars

C4_Witness ==
  \E i \in 1..Len(trails) :
    /\ Len(trails[i].points) = 1
    /\ trails[i].peakM = Null
    /\ trails[i].aboveNetCM = Null
    /\ trails[i].widthM = Null
    /\ trails[i].direction = Null

\* the vertical offsets of all points of a rep under the calibration model
Offsets(rep) ==
  { metersAboveNetAtPoint(pixelsPerMeter, topLine,
                          rep.points[j].x, rep.points[j].y) :
      j \in 1..Len(rep.points) }

\* C5: with the calibration finished, after the aggregation at video end the
\* peak height of every rep with at least 2 points is the net height plus
\* the greatest vertical offset among all its points, and the centimetres
\* above the net are that offset times 100, rounded
C5_PeakIsMaxOffset ==
  [][VideoEnded /\ calibStep = 4 =>
       \A i \in Measured(trails', 2) :
         \E a \in Offsets(trails'[i]) :
           /\ isFinite(a)
           /\ \A o \in Offsets(trails'[i]) : ~NumGT(o, a)
           /\ trails'[i].peakM = NumAdd(NET_HEIGHT_M, a)
           /\ trails'[i].aboveNetCM = MathRound(NumMul(a, Num(100)))]_vars

\* C6: the calibration model is written once, by the fourth calibration
\* click, and afterwards changes only by the R reset, which clears it
C6_ModelWrittenOnce ==
  [][/\ (pixelsPerMeter' # pixelsPerMeter \/ topLine' # topLine) =>
          \/ /\ \E pt \in CalibPixels : ClickCalib(pt)
             /\ calibStep = 3
             /\ pixelsPerMeter = Null /\ topLine = Null
             /\ pixelsPerMeter' # Null /\ topLine' # Null
          \/ /\ KeyR
             /\ pixelsPerMeter' = Null /\ topLine' = Null
     /\ (calibStep = 3 /\ calibStep' = 4) =>
          pixelsPerMeter' # Null /\ topLine' # Null]_vars

C6_Witness ==
  /\ pixelsPerMeter # Null
  /\ topLine # Null
  /\ Len(trails) > 0
  /\ showAllAtEnd
  /\ timers > 0

\* C7: whenever trails holds a rep, the calibration is finished and both
\* pixelsPerMeter and topLine are set
C7_RepsOnlyAfterCalibration ==
  Len(trails) > 0 =>
    calibStep = 4 /\ pixelsPerMeter # Null /\ topLine # Null

C7_Witness ==
  /\ Len(trails) > 0
  /\ showAllAtEnd
  /\ trails[1].direction # Undef
  /\ calibStep = 4

\* C8: a step that takes the calibration back (the R reset) empties trails
\* and the current rep, clears the four calibration points and the model
\* and sets calibStep to 0, all in that one step; and in no state with
\* calibStep = 0 is a calibration point, a model or a rep left over
C8_ResetClearsAll ==
  /\ [](calibStep = 0 =>
          /\ calibPts = NoCalibPts
          /\ pixelsPerMeter = Null /\ topLine = Null
          /\ trails = <<>> /\ current.points = <<>>)
  /\ [][(KeyR \/ calibStep' < calibStep) =>
          /\ trails' = <<>>
          /\ current'.points = <<>>
          /\ calibPts' = NoCalibPts
          /\ calibStep' = 0
          /\ pixelsPerMeter' = Null
          /\ topLine' = Null]_vars

\* calibStep = 0 with the trails switched off is met only after a reset
C8_Witness ==
  /\ calibStep = 0
  /\ ~showTrails
  /\ calibPts = NoCalibPts
  /\ pixelsPerMeter = Null

\* C9: the aggregation at video end changes only the four metric fields of
\* the reps: the reps and their point lists, the current rep and the
\* calibration stay as they were
C9_AggregationFrame ==
  [][VideoEnded =>
       /\ Len(trails') = Len(trails)
       /\ \A i \in 1..Len(trails) : trails'[i].points = trails[i].points
       /\ current' = current
       /\ calibStep' = calibStep
       /\ calibPts' = calibPts
       /\ pixelsPerMeter' = pixelsPerMeter
       /\ topLine' = topLine]_vars

C9_Witness ==
  /\ showAllAtEnd
  /\ Len(trails) = 2
  /\ Len(trails[1].points) = 1
  /\ trails[1].peakM = Null
  /\ Len(trails[2].points) = 2
  /\ isFinite(trails[2].peakM)

\* the reps of trs with a peak height, and those with a width
Peaked(trs) == { i \in 1..Len(trs) : NotNull(trs[i].peakM) }
Wide(trs)   == { i \in 1..Len(trs) : NotNull(trs[i].widthM) }

RECURSIVE SumPeak(_, _)
SumPeak(trs, S) ==
  IF S = {} THEN Num(0)
  ELSE LET i == CHOOSE j \in S : TRUE
       IN  NumAdd(trs[i].peakM, SumPeak(trs, S \ {i}))

RECURSIVE SumWidth(_, _)
SumWidth(trs, S) ==
  IF S = {} THEN Num(0)
  ELSE LET i == CHOOSE j \in S : TRUE
       IN  NumAdd(trs[i].widthM, SumWidth(trs, S \ {i}))

\* C10: the summary computed at video end names as best the rep of lowest
\* index among those of greatest peak height, reports the mean peak and
\* the mean width over the reps that have one, and reports no best or
\* mean when no rep has one
C10_Summary ==
  [][VideoEnded =>
       LET trs == trails'
           P   == Peaked(trs)
           W   == Wide(trs)
       IN  /\ IF P = {}
              THEN stats'.bestIdx = -1 /\ stats'.avgPeak = Null
              ELSE /\ stats'.bestIdx + 1 \in P
                   /\ stats'.bestVal = trs[stats'.bestIdx + 1].peakM
                   /\ \A j \in P : ~NumGT(trs[j].peakM, stats'.bestVal)
                   /\ \A j \in P : j < stats'.bestIdx + 1 =>
                                     NumGT(stats'.bestVal, trs[j].peakM)
                   /\ stats'.avgPeak =
                        NumDiv(SumPeak(trs, P), Num(Cardinality(P)))
           /\ IF W = {}
              THEN stats'.avgWidth = Null
              ELSE stats'.avgWidth =
                     NumDiv(SumWidth(trs, W), Num(Cardinality(W)))]_vars

\* two reps tie for the best peak and the summary names the first
C10_Witness ==
  /\ showAllAtEnd
  /\ stats # NoStats
  /\ Len(trails) = 2
  /\ isFinite(trails[1].peakM)
  /\ trails[2].peakM = trails[1].peakM
  /\ stats.bestIdx = 0
  /\ stats.bestVal = trails[1].peakM

\* the pixel coordinates the offsets are probed at
PixelXs == { p.x : p \in CalibPixels \cup BallPixels }
PixelYs == { p.y : p \in CalibPixels \cup BallPixels }

\* the vertical offset of pixel (x, y) under the calibration of the state
OffsetAt(x, y) == metersAboveNetAtPoint(pixelsPerMeter, topLine, x, y)

\* C11: with the calibration finished and x fixed, the vertical offset is
\* strictly decreasing in the pixel y: y1 < y2 gives offset(x, y1) >
\* offset(x, y2)
C11_OffsetStrictlyMonotone ==
  calibStep = 4 =>
    \A x \in PixelXs : \A y1, y2 \in PixelYs :
      y1 < y2 => NumGT(OffsetAt(x, y1), OffsetAt(x, y2))

\* C12: with the calibration finished, a point on the top line
\* (y = m*x + b) has offset 0, and the offset of a point is positive
\* exactly when its pixel y is smaller than the y of the top line at its x
C12_OffsetZeroOnLine ==
  calibStep = 4 =>
    \A x \in PixelXs : \A y \in PixelYs :
      LET yTop == NumAdd(NumMul(topLine.m, Num(x)), topLine.b)
      IN  /\ yTop = Num(y) => OffsetAt(x, y) = Num(0)
          /\ NumGT(OffsetAt(x, y), Num(0)) <=> NumGT(yTop, Num(y))

\* C13: N after calibration appends the current rep, if it holds a point,
\* as the last closed rep with its points in the order clicked, and leaves
\* trails alone otherwise; the current rep becomes empty; so every closed
\* rep holds a point, and only the R reset takes reps out of trails
C13_EndRep ==
  /\ [](\A i \in 1..Len(trails) : Len(trails[i].points) >= 1)
  /\ [][KeyN =>
          /\ current'.points = <<>>
          /\ IF current.points # <<>>
             THEN /\ Len(trails') = Len(trails) + 1
                  /\ trails'[Len(trails')].points = current.points
                  /\ \A i \in 1..Len(trails) : trails'[i] = trails[i]
             ELSE trails' = trails]_vars
  /\ [][Len(trails') < Len(trails) => KeyR]_vars

C13_Witness ==
  /\ Len(trails) = 2
  /\ Len(trails[2].points) = 2
  /\ trails[2].points[1] # trails[2].points[2]
  /\ trails[2].direction = Undef
  /\ current.points = <<>>

\* C14: Z after calibration takes exactly the last point off the current
\* rep (the rep before Z is the rep after Z with that point appended, so Z
\* undoes the click that recorded it), does nothing when the current rep
\* is empty, and changes neither a closed rep nor the calibration
C14_UndoPoint ==
  [][KeyZ =>
       /\ trails' = trails
       /\ UNCHANGED calibVars
       /\ IF current.points = <<>>
          THEN current' = current
          ELSE current.points =
                 Append(current'.points, current.points[Len(current.points)])]_vars

\* the first of two different points is left after the second was undone
C14_Witness ==
  /\ Len(current.points) = 1
  /\ Len(trails) = 1
  /\ Len(trails[1].points) = 2
  /\ trails[1].points[1] # trails[1].points[2]
  /\ TotalPts(trails) + Len(current.points) < MaxTotalPts

\* C15: S, the Restart button, Enter and the Replay button change neither
\* the closed reps nor the calibration, empty the current rep without
\* closing it, and leave the end screen with the trails hidden; the next
\* video end aggregates every closed rep, those of earlier passes included
C15_RestartKeepsReps ==
  /\ [][(KeyS \/ BtnRestart \/ KeyEnter \/ BtnReplay) =>
          /\ trails' = trails
          /\ UNCHANGED calibVars
          /\ current'.points = <<>>
          /\ showAllAtEnd' = FALSE
          /\ showTrails' = FALSE]_vars
  /\ [][VideoEnded =>
          /\ Len(trails') = Len(trails)
          /\ \A i \in 1..Len(trails) :
               /\ trails'[i].points = trails[i].points
               /\ trails'[i].direction # Undef]_vars

\* a new pass after an end screen: a rep aggregated in the earlier pass is
\* still closed, the current rep is empty and the video plays from 0
C15_Witness ==
  /\ ~showAllAtEnd
  /\ ~showTrails
  /\ Len(trails) >= 1
  /\ trails[1].direction # Undef
  /\ current.points = <<>>
  /\ vidTime = 0
  /\ ~vidPaused

\* the calibration points in the order they are clicked
CalibOrder == <<"LB", "LT", "RB", "RT">>

\* C16: calibStep lies in 0..4 and counts the calibration points recorded,
\* which are the first calibStep of LB, LT, RB, RT; the model is non-null
\* exactly when calibStep = 4; nothing is recorded before the video is
\* primed; a click records the next point only, at the pixel clicked; a
\* recorded point is never rewritten, and calibStep decreases, only by R
C16_CalibrationProtocol ==
  /\ [](/\ calibStep \in 0..4
        /\ \A i \in 1..4 : (calibPts[CalibOrder[i]] # Null) <=> (i <= calibStep)
        /\ calibStep = Cardinality({ i \in 1..4 : calibPts[CalibOrder[i]] # Null })
        /\ (pixelsPerMeter # Null) <=> (calibStep = 4)
        /\ (topLine # Null) <=> (calibStep = 4))
  /\ [][~warmed => UNCHANGED <<calibStep, calibPts>>]_vars
  /\ [][\A pt \in CalibPixels : ClickCalib(pt) =>
          /\ calibStep' = calibStep + 1
          /\ calibPts' = [calibPts EXCEPT ![CalibOrder[calibStep']] = pt]]_vars
  /\ [][\/ KeyR
        \/ /\ calibStep' >= calibStep
           /\ \A i \in 1..4 : calibPts[CalibOrder[i]] # Null =>
                calibPts'[CalibOrder[i]] = calibPts[CalibOrder[i]]]_vars

\* three points recorded at two different pixels, the fourth still missing
C16_Witness ==
  /\ warmed
  /\ calibStep = 3
  /\ calibPts.LB # calibPts.LT
  /\ calibPts.RB # Null
  /\ calibPts.RT = Null
  /\ pixelsPerMeter = Null

\* C17: after calibration the click made while started is false starts
\* playback, sets started and changes nothing else, so no point is recorded
\* while started is false; a click made while started is true and the end
\* screen is not shown appends the pixel clicked, and only it, at the end of
\* the current rep and changes neither the closed reps nor the calibration;
\* the current rep grows in no other way
C17_ClickAfterCalibration ==
  /\ [][ClickStart =>
          /\ ~started /\ started' /\ ~vidPaused'
          /\ UNCHANGED <<repVars, calibVars, showAllAtEnd, showTrails>>]_vars
  /\ [][(calibStep = 4 /\ ~started) => current'.points = current.points]_vars
  /\ [][\A pt \in BallPixels : ClickRecord(pt) =>
          /\ started /\ ~showAllAtEnd
          /\ current'.points = Append(current.points, [x |-> pt.x, y |-> pt.y])
          /\ trails' = trails
          /\ UNCHANGED calibVars]_vars
  /\ [][Len(current'.points) > Len(current.points) =>
          \E pt \in BallPixels : ClickRecord(pt)]_vars

\* two clicks at different pixels, recorded in the order clicked
C17_Witness ==
  /\ started
  /\ ~showAllAtEnd
  /\ Len(current.points) = 2
  /\ current.points[1] # current.points[2]
  /\ Len(trails) = 1

\* keyPressed() for any of the keys it handles
KeyPressed ==
  \/ KeyIgnored
  \/ KeySpace
  \/ KeyN
  \/ KeyZ
  \/ KeyComma
  \/ KeyPeriod
  \/ KeyEnter
  \/ KeyS
  \/ KeyR

\* mousePressed() at any pixel
MousePressed ==
  \/ ClickPrime
  \/ \E pt \in CalibPixels : ClickCalib(pt)
  \/ ClickStart
  \/ \E pt \in BallPixels : ClickRecord(pt)
  \/ ClickIgnored

\* C18: while calibStep < 4 a key press changes nothing of the session
C18_KeysOffDuringCalibration ==
  [][(calibStep < 4 /\ KeyPressed) => UNCHANGED vars]_vars

\* calibration under way: some points recorded, the video primed and paused
C18_Witness ==
  /\ calibStep = 2
  /\ warmed
  /\ vidPaused
  /\ timers = 0

\* C19: a click on the end screen (showAllAtEnd, calibration finished, video
\* primed) changes nothing of the session
C19_EndScreenClickIgnored ==
  [][(showAllAtEnd /\ calibStep = 4 /\ warmed /\ MousePressed) =>
       UNCHANGED vars]_vars

\* C20: a step other than the R reset keeps every closed rep in its place
\* with the point list it had, whatever the step does to the current rep
C20_ClosedRepsFrozen ==
  [][\/ KeyR
     \/ /\ Len(trails') >= Len(trails)
        /\ \A i \in 1..Len(trails) : trails'[i].points = trails[i].points]_vars

\* a closed and aggregated rep next to a current rep with other points
C20_Witness ==
  /\ Len(trails) >= 1
  /\ trails[1].direction # Undef
  /\ Len(current.points) >= 1
  /\ current.points # trails[1].points
  /\ ~showAllAtEnd

\* C21: while the end screen is shown every closed rep carries the four
\* metric fields the aggregator computes from its points and the
\* calibration of the state
C21_EndScreenRepsAggregated ==
  showAllAtEnd =>
    \A i \in 1..Len(trails) :
      /\ trails[i].direction # Undef
      /\ trails[i] = RepMetrics(pixelsPerMeter, topLine, trails[i])

\* C22: at most one priming timeout is pending at any time
C22_OnePrimingTimer ==
  timers <= 1

\* C23: the aggregator gives a rep the metric fields that follow from its
\* points and the calibration alone, whatever fields the rep had, so
\* aggregating twice gives what aggregating once gives; and a later video
\* end leaves every rep that was aggregated before as it was
C23_AggregationIdempotent ==
  /\ [](\A i \in 1..Len(trails) :
          LET once  == RepMetrics(pixelsPerMeter, topLine, trails[i])
              fresh == [EmptyRep EXCEPT !.points = trails[i].points]
          IN  /\ RepMetrics(pixelsPerMeter, topLine, once) = once
              /\ RepMetrics(pixelsPerMeter, topLine, fresh) = once)
  /\ [][VideoEnded =>
          \A i \in 1..Len(trails) :
            trails[i].direction # Undef => trails'[i] = trails[i]]_vars

\* the video is about to end a second time: a rep measured at the first end
\* and a rep closed since then
C23_Witness ==
  /\ ~showAllAtEnd
  /\ ~vidPaused
  /\ vidTime = Duration
  /\ Len(trails) = 2
  /\ isFinite(trails[1].peakM)
  /\ trails[1].widthM.k = "fin"
  /\ trails[1].widthM # Num(0)
  /\ trails[2].direction = Undef

\* C24: while the draw loop runs and pending timeouts fire, a session that
\* is not primed, at the start or after an R reset, becomes primed with the
\* calibration still open, so that the next click is a calibration click
C24_PrimingCompletes ==
  ~warmed ~> (warmed /\ calibStep < 4)

\* primed again after an R reset: the trails were hidden, which takes a
\* finished calibration, before the calibration under way was begun
C24_Witness ==
  /\ warmed
  /\ calibStep = 1
  /\ ~showTrails
  /\ timers = 0

====
